---- MODULE Spec2Model ----
(***************************************************************************)
(* rawpasta-api (src/index.js): an Express server that stores text files   *)
(* and API keys in two MongoDB collections.                                *)
(*                                                                         *)
(* A request is handled in steps: every database call of a handler runs    *)
(* atomically at the database, and the JavaScript between two database     *)
(* calls of one request (the code before the call and the promise callback *)
(* after it) touches only that request's own variables.  One action of the *)
(* model is therefore one database call together with the handler code up  *)
(* to the next database call.  Requests that wait for a database call are  *)
(* kept in the bag `pending`; steps of different requests interleave       *)
(* freely.                                                                 *)
(***************************************************************************)
EXTENDS Integers, Sequences, FiniteSets, Bags, TLC

\* ---------------------------------------------------------------- bounds
\* requests that may wait for a database call at the same time
MaxInFlight == 2
\* requests received in one run
MaxRequests == 2

\* ---------------------------------------------------------------- values
\* a missing header, query parameter, path parameter or uploaded file
\* (undefined in JavaScript, falsy like the empty string)
Absent == ""

\* values generateFileId() may return; "a" is also a file name a caller gives
FileIds == {"a", "b"}
\* file names a caller may give; generateRandomId(22) is drawn from GenNames
FileNames == {"a", "n"}
GenNames == {"n"}
\* file contents
Contents == {"c1", "c2"}
\* values generateApiKey() may return
Secrets == {"k1", "k2"}
\* values generateApiKeyID() may return
KeyIds == {"0x1", "0x2"}

\* TOTP parameters of new OTPAuth.TOTP({ secret, digits: 6, period: 30 })
Digits == 6
Period == 30
\* the forward skew of Date.now() + 30000, in milliseconds
Skew == 30000
\* window of totp.validate: the library's default, one step back and forth
Window == 1
\* a missing otp query parameter
NoOtp == -1
\* values of Date.now(), in milliseconds
Times == {0, 30000}
\* the steps a caller's token may have been generated for
Counters == 0..3

\* totp.generate for a step: the HMAC-based code, here an injective map of
\* the steps into the numbers of Digits digits
generate(counter) == (counter * 7919 + 123456) % (10 ^ Digits)

\* what a caller may send
Credentials == Secrets \cup {Absent}
Identifiers == FileIds \cup FileNames \cup {Absent}
NameParams == FileNames \cup {Absent}
FileParams == Contents \cup {Absent}
KeyIdParams == KeyIds \cup {Absent}
Otps == {generate(c) : c \in Counters} \cup {NoOtp}

\* MongoDB's _id of a record: unique among the records that exist or are
\* still referred to by a waiting request
Oids == 1..(Cardinality(FileIds) + MaxInFlight + 1)

VARIABLES
    files,      \* collection File, in natural (storage) order
    apiKeys,    \* collection ApiKey
    pending,    \* bag of requests waiting for a database call
    received,   \* number of requests received so far
    out         \* the response written by the last step, if it wrote one

vars == <<files, apiKeys, pending, received, out>>

\* ---------------------------------------------------------------- records
\* a request: what the caller sent (apiKey, identifier, id, fileName,
\* overwrite, fileContent, otp), what the handler computed (fileId, now, oid),
\* the database call it waits for (pc) and whether authenticate's lookup
\* found its key (authed)
Blank(op) ==
    [op |-> op, pc |-> "", apiKey |-> Absent, authed |-> FALSE,
     identifier |-> Absent, id |-> Absent, fileName |-> Absent,
     overwrite |-> FALSE, fileContent |-> Absent, fileId |-> Absent,
     oid |-> 0, otp |-> NoOtp, now |-> 0]

\* a response: the request, what res.status(..).json(..) sent first, and the
\* number of times the handler chain tried to write a response (sends)
Response(req, status, message, body, sends) ==
    [req |-> req, status |-> status, message |-> message, body |-> body,
     sends |-> sends]

NoResponse == Response(Blank("none"), 0, "", "", 0)

\* res.json(body)
json(req, message, body) == Response(req, 200, message, body, 1)

\* errorHandler: err.statusCode || 500, err.message
errorHandler(req, statusCode, message) ==
    Response(req, IF statusCode = 0 THEN 500 ELSE statusCode, message, "", 1)

\* ---------------------------------------------------------------- collections
Range(seq) == {seq[i] : i \in 1..Len(seq)}

RECURSIVE FirstIndex(_, _, _)
\* index of the first record of seq, from position i on, that is in matching; 0 if none
FirstIndex(seq, matching, i) ==
    IF i > Len(seq) THEN 0
    ELSE IF seq[i] \in matching THEN i
    ELSE FirstIndex(seq, matching, i + 1)

\* Model.findOne(filter): the first matching record in natural order (0: null)
findOne(seq, matching) == FirstIndex(seq, matching, 1)

RemoveAt(seq, i) == SubSeq(seq, 1, i - 1) \o SubSeq(seq, i + 1, Len(seq))

\* the filter { fileName }
ByName(name) == {f \in Range(files) : f.fileName = name}
\* the filter { $or: [{ id: identifier }, { fileName: identifier }] }
ByIdOrName(identifier) ==
    {f \in Range(files) : f.id = identifier \/ f.fileName = identifier}
\* the filter { _id: oid }
ByOid(oid) == {f \in Range(files) : f.oid = oid}

\* a fresh _id
NewOid ==
    CHOOSE o \in Oids :
        /\ o \notin {f.oid : f \in Range(files)}
        /\ o \notin {p.oid : p \in BagToSet(pending)}
        /\ \A o2 \in Oids :
              (o2 \notin {f.oid : f \in Range(files)} /\ o2 \notin {p.oid : p \in BagToSet(pending)})
                  => o <= o2

\* ---------------------------------------------------------------- bookkeeping
CanReceive == received < MaxRequests
CanWait == BagCardinality(pending) < MaxInFlight

Wait(p) == pending' = pending (+) SetToBag({p})
Continue(p, q) == pending' = (pending (-) SetToBag({p})) (+) SetToBag({q})
Finish(p) == pending' = pending (-) SetToBag({p})

Waiting(op, pc) == {p \in BagToSet(pending) : p.op = op /\ p.pc = pc}

\* ---------------------------------------------------------------- authenticate
\* authenticate without the check of the lookup's result
authenticateAnyKey(apiKey) ==
    IF apiKey = Absent THEN "API key is required" ELSE ""

\* authenticate with the lookup by the key's id instead of its secret
authenticateById(apiKey) ==
    IF apiKey = Absent THEN "API key is required"
    ELSE IF \A k \in apiKeys : k.id # apiKey THEN "Invalid API key"
    ELSE ""

\* authenticate: "" when next() is called, else the message of the 401
authenticate(apiKey) ==
    IF apiKey = Absent THEN "API key is required"
    ELSE IF \A k \in apiKeys : k.key # apiKey THEN "Invalid API key"
    ELSE ""

\* did ApiKey.findOne({ key: apiKey }) find a record
KeyFound(apiKey) == apiKey # Absent /\ \E k \in apiKeys : k.key = apiKey

\* a protected request as it reaches authenticate
Arrivals(op) ==
    {[Blank(op) EXCEPT !.apiKey = k, !.authed = KeyFound(k)] : k \in Credentials}

\* the request after authenticate called next(): apiKey was a local of
\* authenticate
Passed(req) == [req EXCEPT !.apiKey = Absent]

\* authenticate threw or called next(err): errorHandler answers 401
Deny(req) ==
    /\ out' = errorHandler(req, 401, authenticate(req.apiKey))
    /\ UNCHANGED <<files, apiKeys, pending>>

\* a step that ends the request with an error and changes no collection
Fail(req, statusCode, message) ==
    /\ out' = errorHandler(req, statusCode, message)
    /\ UNCHANGED <<files, apiKeys>>

\* The collections live in MongoDB and outlast the server: at start-up they
\* are empty or hold what earlier runs of the server left in them.  Each
\* stored state below is reached from the one before it by one create-key or
\* one upload (the second file is an upload with fileName=a that got id b).
StoredFiles ==
    {<<>>,
     <<[oid |-> 1, id |-> "a", fileName |-> "n", fileContent |-> "c1"]>>,
     <<[oid |-> 1, id |-> "a", fileName |-> "n", fileContent |-> "c1"],
       [oid |-> 2, id |-> "b", fileName |-> "a", fileContent |-> "c2"]>>}
StoredKeys ==
    {{},
     {[key |-> "k1", id |-> "0x1"]},
     {[key |-> "k1", id |-> "0x1"], [key |-> "k2", id |-> "0x2"]}}

Init ==
    /\ files \in StoredFiles
    /\ apiKeys \in StoredKeys
    /\ pending = EmptyBag
    /\ received = 0
    /\ out = NoResponse

\* ---------------------------------------------------------------- POST /upload
\* authenticate, then the handler up to File.findOne(fileQuery)
UploadRequest ==
    /\ CanReceive
    /\ received' = received + 1
    /\ \E req \in Arrivals("upload") :
          IF authenticate(req.apiKey) # "" THEN Deny(req)
          ELSE \E file \in FileParams :
                  IF file = Absent
                  THEN Fail(req, 400, "No file uploaded") /\ UNCHANGED pending
                  ELSE \E name \in NameParams, gen \in GenNames,
                          overwrite \in BOOLEAN, fileId \in FileIds :
                          /\ CanWait
                          /\ Wait([Passed(req) EXCEPT !.pc = "findOne",
                                      !.fileName = IF name = Absent THEN gen ELSE name,
                                      !.overwrite = overwrite,
                                      !.fileContent = file,
                                      !.fileId = fileId])
                          /\ out' = NoResponse
                          /\ UNCHANGED <<files, apiKeys>>

\* the check with overwrite taken the wrong way round
ConflictInverted(existingFile, overwrite) == existingFile # 0 /\ overwrite

\* existingFile && !overwrite
Conflict(existingFile, overwrite) == existingFile # 0 /\ ~overwrite

\* File.findOne(fileQuery) and its callback
UploadFindOne ==
    /\ \E p \in Waiting("upload", "findOne") :
          LET existingFile == findOne(files, ByName(p.fileName)) IN
          IF Conflict(existingFile, p.overwrite)
          THEN Fail(p, 409, "File name already exists") /\ Finish(p)
          ELSE /\ Continue(p, [p EXCEPT !.pc = "save"])
               /\ out' = NoResponse
               /\ UNCHANGED <<files, apiKeys>>
    /\ UNCHANGED received

\* newFile.save() with no unique index on id
UploadSaveNoIndex ==
    /\ \E p \in Waiting("upload", "save") :
          /\ files' = Append(files, [oid |-> NewOid, id |-> p.fileId,
                                     fileName |-> p.fileName,
                                     fileContent |-> p.fileContent])
          /\ out' = json(p, "", p.fileId)
          /\ UNCHANGED apiKeys
          /\ Finish(p)
    /\ UNCHANGED received

\* newFile.save() under the unique index on id, and the callbacks after it
UploadSave ==
    /\ \E p \in Waiting("upload", "save") :
          /\ IF \E f \in Range(files) : f.id = p.fileId
             THEN Fail(p, 0, "E11000 duplicate key error")
             ELSE /\ files' = Append(files, [oid |-> NewOid, id |-> p.fileId,
                                             fileName |-> p.fileName,
                                             fileContent |-> p.fileContent])
                  /\ out' = json(p, "", p.fileId)
                  /\ UNCHANGED apiKeys
          /\ Finish(p)
    /\ UNCHANGED received

\* ---------------------------------------------------------------- GET /raw
\* the route with authenticate in front of the handler
RawReadProtected ==
    /\ CanReceive
    /\ received' = received + 1
    /\ \E arrival \in Arrivals("raw"), identifier \in Identifiers :
          LET req == [arrival EXCEPT !.identifier = identifier]
              file == findOne(files, ByIdOrName(identifier)) IN
          IF authenticate(req.apiKey) # "" THEN Deny(req)
          ELSE IF identifier = Absent THEN Fail(req, 400, "Identifier is required")
          ELSE IF file = 0 THEN Fail(req, 404, "File not found")
          ELSE /\ out' = json(req, "", files[file].fileContent)
               /\ UNCHANGED <<files, apiKeys>>
    /\ UNCHANGED pending

\* the whole handler: no authenticate in the route
RawRead ==
    /\ CanReceive
    /\ received' = received + 1
    /\ \E apiKey \in Credentials, identifier \in Identifiers :
          LET req == [Blank("raw") EXCEPT !.apiKey = apiKey, !.identifier = identifier]
              file == findOne(files, ByIdOrName(identifier)) IN
          IF identifier = Absent THEN Fail(req, 400, "Identifier is required")
          ELSE IF file = 0 THEN Fail(req, 404, "File not found")
          ELSE /\ out' = json(req, "", files[file].fileContent)
               /\ UNCHANGED <<files, apiKeys>>
    /\ UNCHANGED pending

\* ---------------------------------------------------------------- GET /list
ListRequest ==
    /\ CanReceive
    /\ received' = received + 1
    /\ \E req \in Arrivals("list") :
          IF authenticate(req.apiKey) # "" THEN Deny(req)
          ELSE /\ CanWait
               /\ Wait([Passed(req) EXCEPT !.pc = "find"])
               /\ out' = NoResponse
               /\ UNCHANGED <<files, apiKeys>>

\* File.find({}, 'id fileName') and its callback
ListFind ==
    /\ \E p \in Waiting("list", "find") :
          /\ out' = json(p, "", {[oid |-> f.oid, id |-> f.id, fileName |-> f.fileName] :
                                    f \in Range(files)})
          /\ Finish(p)
    /\ UNCHANGED <<files, apiKeys, received>>

\* ---------------------------------------------------------------- PUT /edit
EditRequest ==
    /\ CanReceive
    /\ received' = received + 1
    /\ \E req \in Arrivals("edit") :
          IF authenticate(req.apiKey) # "" THEN Deny(req)
          ELSE \E identifier \in Identifiers, file \in FileParams :
                  IF identifier = Absent
                  THEN Fail(req, 400, "Identifier is required") /\ UNCHANGED pending
                  ELSE IF file = Absent
                  THEN Fail([req EXCEPT !.identifier = identifier], 400, "File is required")
                       /\ UNCHANGED pending
                  ELSE /\ CanWait
                       /\ Wait([Passed(req) EXCEPT !.pc = "findOneAndUpdate",
                                   !.identifier = identifier, !.fileContent = file])
                       /\ out' = NoResponse
                       /\ UNCHANGED <<files, apiKeys>>

\* findOneAndUpdate with the option upsert: no match inserts a record
findOneAndUpdateUpsert(identifier, fileContent) ==
    LET file == findOne(files, ByIdOrName(identifier)) IN
    IF file = 0
    THEN Append(files, [oid |-> NewOid, id |-> identifier, fileName |-> identifier,
                        fileContent |-> fileContent])
    ELSE [files EXCEPT ![file].fileContent = fileContent]

\* File.findOneAndUpdate({ $or: [idQuery, nameQuery] }, { fileContent }):
\* the collection after it
findOneAndUpdate(identifier, fileContent) ==
    LET file == findOne(files, ByIdOrName(identifier)) IN
    IF file = 0 THEN files
    ELSE [files EXCEPT ![file].fileContent = fileContent]

\* File.findOneAndUpdate(..) and its callback
EditUpdate ==
    /\ \E p \in Waiting("edit", "findOneAndUpdate") :
          LET file == findOne(files, ByIdOrName(p.identifier)) IN
          /\ files' = findOneAndUpdate(p.identifier, p.fileContent)
          /\ out' = IF file = 0 THEN errorHandler(p, 404, "File not found")
                    ELSE json(p, "File updated successfully", "")
          /\ Finish(p)
    /\ UNCHANGED <<apiKeys, received>>

\* ---------------------------------------------------------------- DELETE /delete
DeleteRequest ==
    /\ CanReceive
    /\ received' = received + 1
    /\ \E req \in Arrivals("delete") :
          IF authenticate(req.apiKey) # "" THEN Deny(req)
          ELSE \E identifier \in Identifiers :
                  IF identifier = Absent
                  THEN Fail(req, 400, "Identifier is required") /\ UNCHANGED pending
                  ELSE /\ CanWait
                       /\ Wait([Passed(req) EXCEPT !.pc = "findOne", !.identifier = identifier])
                       /\ out' = NoResponse
                       /\ UNCHANGED <<files, apiKeys>>

\* File.findOne({ $or: [idQuery, nameQuery] }) and its callback.  When no
\* file is found, next(error) sends the 404 and returns; the chain goes on
\* to the second then (res.json after the response: it throws) and to the
\* catch (next(err): errorHandler writes again): three writes, the 404 first.
DeleteFindOne ==
    /\ \E p \in Waiting("delete", "findOne") :
          LET file == findOne(files, ByIdOrName(p.identifier)) IN
          IF file = 0
          THEN /\ out' = [errorHandler(p, 404, "File not found") EXCEPT !.sends = 3]
               /\ Finish(p)
          ELSE /\ Continue(p, [p EXCEPT !.pc = "findOneAndDelete",
                                        !.oid = files[file].oid])
               /\ out' = NoResponse
    /\ UNCHANGED <<files, apiKeys, received>>

\* File.findOneAndDelete({ _id: file._id }) and the callback after it
DeleteRemove ==
    /\ \E p \in Waiting("delete", "findOneAndDelete") :
          LET file == findOne(files, ByOid(p.oid)) IN
          /\ files' = IF file = 0 THEN files ELSE RemoveAt(files, file)
          /\ out' = json(p, "File deleted successfully", "")
          /\ Finish(p)
    /\ UNCHANGED <<apiKeys, received>>

\* ---------------------------------------------------------------- OTP
\* totp.validate({ token, timestamp }): the deltas (in steps) at which the
\* token matches within the window; the library returns the delta, or null
\* when there is none (the empty set here)
validate(token, timestamp) ==
    LET counter == (timestamp \div 1000) \div Period IN
    {delta \in (0 - Window)..Window : generate(counter + delta) = token}

\* the check of the value as isValidToken !== undefined: null passes it
NotUndefined(delta) == delta \in SUBSET ((0 - Window)..Window)

\* JavaScript truthiness of the value totp.validate returned: null and the
\* number 0 are falsy
Truthy(delta) == delta # {} /\ delta # {0}

\* GET /validate
Validate ==
    /\ CanReceive
    /\ received' = received + 1
    /\ \E totpToken \in Otps, now \in Times :
          LET req == [Blank("validate") EXCEPT !.otp = totpToken, !.now = now]
              timestamp == now + Skew
              isValidToken == validate(totpToken, timestamp) IN
          IF totpToken = NoOtp
          THEN out' = Response([req EXCEPT !.now = 0], 400,
                               "OTP (One-Time Password) is required", "", 1)
          ELSE out' = json(req, "", [isValid |-> IF Truthy(isValidToken) THEN 1 ELSE 0,
                                     timestamp |-> timestamp])
    /\ UNCHANGED <<files, apiKeys, pending>>

\* ---------------------------------------------------------------- POST /create-key
\* the whole handler: the OTP check, newApiKey.save() under the unique
\* indexes on key and id, and the callbacks after it
CreateKey ==
    /\ CanReceive
    /\ received' = received + 1
    /\ \E totpToken \in Otps, now \in Times :
          LET req == [Blank("create-key") EXCEPT !.otp = totpToken, !.now = now]
              isValidToken == validate(totpToken, now + Skew) IN
          IF totpToken = NoOtp
          THEN Fail([req EXCEPT !.now = 0], 401, "OTP (One-Time Password) is required")
          ELSE IF ~Truthy(isValidToken)
          THEN Fail(req, 401, "Invalid OTP (One-Time Password)")
          ELSE \E apiKeyId \in KeyIds, apiKey \in Secrets :
                  IF \E k \in apiKeys : k.key = apiKey \/ k.id = apiKeyId
                  THEN Fail(req, 0, "E11000 duplicate key error")
                  ELSE /\ apiKeys' = apiKeys \cup {[key |-> apiKey, id |-> apiKeyId]}
                       /\ out' = json(req, "", [id |-> apiKeyId, key |-> apiKey])
                       /\ UNCHANGED files
    /\ UNCHANGED pending

\* ---------------------------------------------------------------- DELETE /delete-key
DeleteKeyRequest ==
    /\ CanReceive
    /\ received' = received + 1
    /\ \E req \in Arrivals("delete-key") :
          IF authenticate(req.apiKey) # "" THEN Deny(req)
          ELSE \E id \in KeyIdParams :
                  IF id = Absent
                  THEN Fail(req, 400, "API Key ID is required") /\ UNCHANGED pending
                  ELSE /\ CanWait
                       /\ Wait([Passed(req) EXCEPT !.pc = "findOneAndDelete", !.id = id])
                       /\ out' = NoResponse
                       /\ UNCHANGED <<files, apiKeys>>

\* delete-key as a soft delete: the answer is given, the record stays
DeleteKeyRemoveKept ==
    /\ \E p \in Waiting("delete-key", "findOneAndDelete") :
          /\ IF \A k \in apiKeys : k.id # p.id
             THEN Fail(p, 400, "Invalid API Key ID")
             ELSE /\ out' = json(p, "API key deleted successfully", "")
                  /\ UNCHANGED <<files, apiKeys>>
          /\ Finish(p)
    /\ UNCHANGED received

\* delete-key that answers success when no key has the id
DeleteKeyRemoveLenient ==
    /\ \E p \in Waiting("delete-key", "findOneAndDelete") :
          /\ apiKeys' = {k \in apiKeys : k.id # p.id}
          /\ out' = json(p, "API key deleted successfully", "")
          /\ UNCHANGED files
          /\ Finish(p)
    /\ UNCHANGED received

\* ApiKey.findOneAndDelete({ id: req.params.id }) and its callback
DeleteKeyRemove ==
    /\ \E p \in Waiting("delete-key", "findOneAndDelete") :
          /\ IF \A k \in apiKeys : k.id # p.id
             THEN Fail(p, 400, "Invalid API Key ID")
             ELSE /\ apiKeys' = {k \in apiKeys : k.id # p.id}
                  /\ out' = json(p, "API key deleted successfully", "")
                  /\ UNCHANGED files
          /\ Finish(p)
    /\ UNCHANGED received

\* ---------------------------------------------------------------- GET /list-keys
ListKeysRequest ==
    /\ CanReceive
    /\ received' = received + 1
    /\ \E req \in Arrivals("list-keys") :
          IF authenticate(req.apiKey) # "" THEN Deny(req)
          ELSE /\ CanWait
               /\ Wait([Passed(req) EXCEPT !.pc = "find"])
               /\ out' = NoResponse
               /\ UNCHANGED <<files, apiKeys>>

\* ApiKey.find({}, 'key id') and its callback
ListKeysFind ==
    /\ \E p \in Waiting("list-keys", "find") :
          /\ out' = json(p, "", {[key |-> k.key, id |-> k.id] : k \in apiKeys})
          /\ Finish(p)
    /\ UNCHANGED <<files, apiKeys, received>>

\* ---------------------------------------------------------------- specification
Next ==
    \/ Validate
    \/ CreateKey
    \/ DeleteKeyRequest
    \/ DeleteKeyRemove
    \/ ListKeysRequest
    \/ ListKeysFind
    \/ UploadRequest
    \/ UploadFindOne
    \/ UploadSave
    \/ RawRead
    \/ ListRequest
    \/ ListFind
    \/ EditRequest
    \/ EditUpdate
    \/ DeleteRequest
    \/ DeleteFindOne
    \/ DeleteRemove

Spec == Init /\ [][Next]_vars

\* ---------------------------------------------------------------- properties
\* the routes that run authenticate, and those among them that write
Protected == {"delete-key", "list-keys", "upload", "list", "edit", "delete"}
Mutators == {"upload", "edit", "delete", "delete-key"}

\* the waiting request p takes the step
Stepped(p) == CopiesIn(p, pending') < CopiesIn(p, pending)

\* a request is received in the step
Received == received' = received + 1

CollectionsUnchanged == files' = files /\ apiKeys' = apiKeys

\* what C1 asks of one step
C1_Step ==
    /\ (Received /\ out'.req.op \in Mutators /\ ~KeyFound(out'.req.apiKey))
          => (out'.status = 401 /\ CollectionsUnchanged)
    /\ (Received /\ out' = NoResponse)
          => \A p \in BagToSet(pending') : p.op \in Mutators => p.authed
    /\ (~CollectionsUnchanged /\ out'.req.op \in Mutators) => out'.req.authed
    /\ (~CollectionsUnchanged) => out'.req.op \in Mutators \cup {"create-key"}

\* C1: a request to upload, edit, delete or delete-key whose credential is
\* missing or matches no stored key when authenticate looks it up is answered
\* 401 and changes no collection; a request waits for a handler's database
\* call only after authenticate found its key; and a step of one of these
\* routes that changes a collection belongs to a request whose key was found.
C1_GateBeforeMutation == [][C1_Step]_vars

\* C1 witness: a delete with a key that is not stored was answered 401 while
\* a file and a key are stored
C1_Witness ==
    /\ out.req.op = "delete"
    /\ out.status = 401
    /\ out.message = "Invalid API key"
    /\ files # <<>>
    /\ apiKeys # {}

\* the files that hold the name, in the collection seq
Named(seq, name) == {i \in 1..Len(seq) : seq[i].fileName = name}

\* the last step answered an upload with { id }
Uploaded == out.req.op = "upload" /\ out.status = 200

\* what C2 asks of one step
C2_Step ==
    (/\ Uploaded
     /\ ~out.req.overwrite
     /\ \E p \in Waiting("upload", "save") :
           Stepped(p) /\ ~p.overwrite /\ p.fileName = out.req.fileName)
        => (/\ out'.status = 409
            /\ Cardinality(Named(files', out.req.fileName)) = 1)

\* C2: of two uploads of one name, both with overwrite=false, that both ran
\* their existence check while no file held the name, exactly one succeeds:
\* when the first has been answered { id }, the second, whose save comes
\* next, is answered 409, and one file holds the name afterwards.
C2_OneUploadWinsRace == [][C2_Step]_vars

\* C3: at most one file holds a given name.
C3_NameUnique ==
    \A i, j \in 1..Len(files) : files[i].fileName = files[j].fileName => i = j

\* what C4 asks of one step
C4_Step ==
    \A p \in Waiting("upload", "findOne") :
        (Stepped(p) /\ ~p.overwrite /\ Named(files, p.fileName) # {})
            => (/\ out' = errorHandler(p, 409, "File name already exists")
                /\ CollectionsUnchanged
                /\ CopiesIn(p, pending') = CopiesIn(p, pending) - 1
                /\ BagCardinality(pending') = BagCardinality(pending) - 1)

\* C4: an upload with overwrite=false whose existence check finds a file of
\* its name is answered 409 'File name already exists' by that step, the
\* collections stay as they are, and the request does nothing more.
C4_ConflictLeavesFile == [][C4_Step]_vars

\* C4 witness: an upload was answered 409 and the stored file is there
C4_Witness ==
    /\ out.req.op = "upload"
    /\ out.status = 409
    /\ ~out.req.overwrite
    /\ Named(files, out.req.fileName) # {}

\* what C5 asks of one step
C5_Step ==
    (/\ Uploaded
     /\ Cardinality(Named(files, out.req.fileName)) = 1
     /\ out'.req.op = "raw"
     /\ out'.req.identifier \in {out.req.fileName, out.body})
        => (out'.status = 200 /\ out'.body = out.req.fileContent)

\* C5: after an upload of a name that no other file holds was answered
\* { id }, a raw read of the name or of the id, coming next, returns the
\* uploaded content.
C5_ReadYourUpload == [][C5_Step]_vars

\* what C6 asks of one step
C6_Step ==
    (/\ Uploaded
     /\ out.req.overwrite
     /\ \A f \in Range(files) : f.id # out.req.fileName
     /\ out'.req.op = "raw"
     /\ out'.req.identifier = out.req.fileName)
        => (/\ out'.status = 200
            /\ out'.body = out.req.fileContent
            /\ Cardinality(Named(files, out.req.fileName)) = 1)

\* C6: after an upload with overwrite=true was answered { id }, a raw read
\* of its name, coming next, returns the uploaded content, and one file holds
\* the name (the name is the id of no file, so that the read is by name).
C6_OverwriteReplaces == [][C6_Step]_vars

\* what C7 asks of one step
C7_Step ==
    \A p \in Waiting("edit", "findOneAndUpdate") :
        Stepped(p) =>
            /\ apiKeys' = apiKeys
            /\ IF ByIdOrName(p.identifier) = {}
               THEN out'.status = 404 /\ files' = files
               ELSE /\ out'.status = 200
                    /\ \E i \in 1..Len(files) :
                          /\ files[i] \in ByIdOrName(p.identifier)
                          /\ files' = [files EXCEPT ![i].fileContent = p.fileContent]

\* C7: the update of an edit with identifier X and content C: when no file
\* has id X or name X it is answered 404 and the collections stay as they
\* are; otherwise one file that has id X or name X gets content C and keeps
\* its id and its name, and every other file stays as it is.
C7_EditChangesContentOnly == [][C7_Step]_vars

\* C7 witness: an edit by name was answered 200; the file it names holds the
\* new content and its id differs from the identifier, another file is stored
C7_Witness ==
    /\ out.req.op = "edit"
    /\ out.status = 200
    /\ Len(files) = 2
    /\ \E f \in Range(files) :
          /\ f.fileName = out.req.identifier
          /\ f.id # out.req.identifier
          /\ f.fileContent = out.req.fileContent
    /\ \E f \in Range(files) : f.fileContent # out.req.fileContent

\* what C8 asks of one step
C8_Step ==
    (/\ out.req.op = "delete"
     /\ out.status = 200
     /\ out'.req.op = "raw"
     /\ out'.req.identifier = out.req.identifier)
        => out'.status = 404

\* C8: after a delete with identifier X was answered 'File deleted
\* successfully', a raw read of X, coming next, is answered 404.
C8_DeletedIsGone == [][C8_Step]_vars

\* what C9 asks of one step
C9_Step ==
    /\ out'.req.op = "raw" => out'.status # 401
    /\ (/\ out.req.op = "raw"
        /\ out'.req.op = "raw"
        /\ out'.req.identifier = out.req.identifier)
          => (out'.status = out.status /\ out'.body = out.body)
    /\ (out'.req.op \in {"list", "upload", "edit", "delete"} /\ out'.status = 200)
          => out'.req.authed

\* C9: two raw reads of one identifier, one after the other, get the same
\* answer whatever credentials they carry and never a 401; list, upload,
\* edit and delete answer 200 only to a request whose key authenticate found.
C9_OnlyRawIsPublic == [][C9_Step]_vars

\* C9 witness: a raw read without a key returned a file's content while a key
\* is stored
C9_Witness ==
    /\ out.req.op = "raw"
    /\ out.req.apiKey = Absent
    /\ out.status = 200
    /\ out.body \in Contents
    /\ apiKeys # {}

\* what C10 asks of one step
C10_Step ==
    /\ (Received /\ out'.req.op \in Protected /\ KeyFound(out'.req.apiKey))
          => out'.status # 401
    /\ \A k \in apiKeys :
          k \notin apiKeys' =>
              /\ out'.req.op = "delete-key"
              /\ out'.req.id = k.id
              /\ out'.status = 200

\* C10: a request to a protected route is answered 401 'Invalid API key' only
\* if no stored key has the secret it presents, and a key leaves the
\* collection only by a delete-key of its id that is answered 'API key
\* deleted successfully'.
C10_KeyValidUntilDeleted == [][C10_Step]_vars

\* C10 witness: a request presented a stored key, passed authenticate and
\* was answered by its handler, while another key is stored as well
C10_Witness ==
    /\ out.req.op \in Protected
    /\ out.req.apiKey # Absent
    /\ out.req.authed
    /\ out.status = 400
    /\ Cardinality(apiKeys) = 2

\* some stored key has the secret, before and after the step
Stored(secret) == \E k \in apiKeys : k.key = secret
StoredAfter(secret) == \E k \in apiKeys' : k.key = secret

\* what C11 asks of one step
C11_Step ==
    /\ \A p \in Waiting("delete-key", "findOneAndDelete") :
          (Stepped(p) /\ out'.status = 200) =>
              /\ \E k \in apiKeys : k.id = p.id
              /\ \A k \in apiKeys : k.id = p.id => ~StoredAfter(k.key)
    /\ (/\ Received
        /\ out'.req.op \in Protected
        /\ out'.req.apiKey # Absent
        /\ ~Stored(out'.req.apiKey))
          => (/\ out' = errorHandler(out'.req, 401, "Invalid API key")
              /\ CollectionsUnchanged
              /\ pending' = pending)
    /\ (Received /\ pending' # pending)
          => \A p \in BagToSet(pending') :
                CopiesIn(p, pending') > CopiesIn(p, pending) => p.authed
    /\ \A secret \in Secrets :
          (~Stored(secret) /\ StoredAfter(secret))
              => (/\ out'.req.op = "create-key"
                  /\ out'.status = 200
                  /\ out'.body.key = secret)

\* C11: the step that answers a delete-key 'API key deleted successfully'
\* removes the key, and no stored key has its secret afterwards; a request to
\* a protected route that presents a secret no stored key has is answered 401
\* 'Invalid API key', changes no collection and starts no database call of a
\* handler; and a secret that is not stored gets stored again only when a
\* create-key issues it with a new key.
C11_DeletedKeyIsInvalid == [][C11_Step]_vars

\* C11 witness: a request that presents k1 was answered 401 'Invalid API key'
\* after the key was deleted; the other key and the files are still stored
C11_Witness ==
    /\ out.req.op \in Mutators
    /\ out.req.apiKey = "k1"
    /\ out = errorHandler(out.req, 401, "Invalid API key")
    /\ apiKeys = {[key |-> "k2", id |-> "0x2"]}
    /\ Len(files) = 2

\* what C12 asks of one step
C12_Step ==
    \A p \in Waiting("delete-key", "findOneAndDelete") :
        Stepped(p) =>
            /\ (\A k \in apiKeys : k.id # p.id)
                  => (/\ out' = errorHandler(p, 400, "Invalid API Key ID")
                      /\ CollectionsUnchanged
                      /\ BagCardinality(pending') = BagCardinality(pending) - 1)
            /\ \A k \in apiKeys : k.id # p.id => (k \in apiKeys' /\ StoredAfter(k.key))

\* C12: the removal step of a delete-key whose id no stored key has is
\* answered 400 'Invalid API Key ID', leaves both collections as they are and
\* ends the request; and the removal step of any delete-key leaves every key
\* of another id stored, so that its secret still authenticates.
C12_UnknownKeyIdChangesNothing == [][C12_Step]_vars

\* C12 witness: a delete-key of id 0x2 was answered 400 while the key of id
\* 0x1 is the one that is stored
C12_Witness ==
    /\ out.req.op = "delete-key"
    /\ out.req.id = "0x2"
    /\ out = errorHandler(out.req, 400, "Invalid API Key ID")
    /\ apiKeys = {[key |-> "k1", id |-> "0x1"]}

\* the key records the step inserts
Inserted == apiKeys' \ apiKeys

\* what C13 asks of one step
C13_Step ==
    /\ \A k \in Inserted :
          /\ out'.req.op = "create-key"
          /\ out'.req.otp # NoOtp
          /\ validate(out'.req.otp, out'.req.now + Skew) # {}
          /\ out' = json(out'.req, "", [id |-> k.id, key |-> k.key])
          /\ Inserted = {k}
    /\ (/\ out'.req.op = "create-key"
        /\ \/ out'.req.otp = NoOtp
           \/ validate(out'.req.otp, out'.req.now + Skew) = {})
          => (/\ out'.status = 401
              /\ out'.sends = 1
              /\ CollectionsUnchanged)

\* C13: a step that inserts a key record is the step of a create-key request
\* whose token totp.validate matched within its window, it inserts that one
\* record and answers with it; a create-key request without a token, or with
\* a token that totp.validate matches at no step of the window, is answered
\* 401 and changes no collection.
C13_KeysOnlyByValidOtp == [][C13_Step]_vars

\* C13 witness: a create-key with a token outside the window was answered 401
\* 'Invalid OTP' and the one stored key is the one that was there before
C13_Witness ==
    /\ out.req.op = "create-key"
    /\ out.req.otp = generate(3)
    /\ out.req.now = 0
    /\ out = errorHandler(out.req, 401, "Invalid OTP (One-Time Password)")
    /\ apiKeys = {[key |-> "k1", id |-> "0x1"]}

\* the token generated for the step that contains now + 30 s
TokenOfStep(now) == generate(((now + Skew) \div 1000) \div Period)

\* what C14 asks of one step
C14_Step ==
    /\ (out'.req.op = "validate" /\ out'.req.otp = TokenOfStep(out'.req.now))
          => (out'.status = 200 /\ out'.body.isValid = 1)
    /\ (out'.req.op = "create-key" /\ out'.req.otp = TokenOfStep(out'.req.now))
          => out'.status # 401

\* C14: a request that brings the token generated for the 30-second step
\* that contains now + 30 s is accepted: /validate answers isValid = 1 and
\* create-key does not answer 401.
C14_CurrentTokenAccepted == [][C14_Step]_vars

\* the save of the waiting upload p runs in the step and its generated id is
\* the id of a stored file
Collides(p) == Stepped(p) /\ \E f \in Range(files) : f.id = p.fileId

\* what C15 asks of one step
C15_Step ==
    \A p \in Waiting("upload", "save") : Collides(p) => out'.status = 409

\* C15: an upload whose save the unique index on id rejects is answered 409.
C15_StorageConflictIs409 == [][C15_Step]_vars

\* what C16 asks of one step
C16_Step ==
    \A p \in Waiting("upload", "save") :
        Collides(p) =>
            /\ out'.req = p
            /\ out'.status >= 400
            /\ CollectionsUnchanged
            /\ BagCardinality(pending') = BagCardinality(pending) - 1

\* no two stored files have one id
IdUnique == \A i, j \in 1..Len(files) : files[i].id = files[j].id => i = j

\* C16: in every reachable state no two files have one id; and the save of
\* an upload whose generated id is the id of a stored file is answered with
\* an error, leaves the collections as they are and ends the request.
C16_IdCollisionSurfaces == [](IdUnique) /\ [][C16_Step]_vars

\* C16 witness: an upload that generated the id of the stored file was
\* answered with an error; the stored file is as it was
C16_Witness ==
    /\ out.req.op = "upload"
    /\ out.req.fileId = "a"
    /\ out.req.fileName = "a"
    /\ out.req.fileContent = "c2"
    /\ out.status >= 400
    /\ files = <<[oid |-> 1, id |-> "a", fileName |-> "n", fileContent |-> "c1"]>>

\* C17: every entry of an answer of list-keys has the id of a key and no
\* field that holds the secret of a key.
C17_ListKeysHidesSecrets ==
    (out.req.op = "list-keys" /\ out.status = 200)
        => \A entry \in out.body :
              /\ "id" \in DOMAIN entry
              /\ \A field \in DOMAIN entry : entry[field] \notin Secrets

\* C18: a step that answers a request writes the response once: the handler
\* chain makes no further attempt to write after the response was sent.
C18_OneResponsePerRequest == out # NoResponse => out.sends = 1

\* what C19 asks of one step
C19_Step ==
    \A p \in Waiting("delete", "findOneAndDelete") :
        Stepped(p) =>
            IF ByOid(p.oid) = {}
            THEN out'.status = 404 /\ files' = files
            ELSE out'.status = 200 /\ Len(files') = Len(files) - 1

\* C19: the removal step of a delete answers 'File deleted successfully'
\* when it removes the file its lookup found, and 404 when that file is no
\* longer stored (a concurrent delete removed it): of two concurrent deletes
\* of one file at most one reports success.
C19_DeleteReportsOwnRemoval == [][C19_Step]_vars

\* what C20 asks of one step
C20_Step ==
    /\ out'.status >= 400 => CollectionsUnchanged
    /\ out' = NoResponse => CollectionsUnchanged

\* C20: a step that answers a request with an error (400, 401, 404, 409 or
\* 500) changes no collection, and neither does a step that answers nothing:
\* the steps of a request before its answer change nothing, so a request
\* that ends in an error has changed nothing.
C20_ErrorsChangeNothing == [][C20_Step]_vars

\* C20 witness: an edit that waited for its update was answered 404; the
\* stored file is as it was
C20_Witness ==
    /\ out.req.op = "edit"
    /\ out.req.identifier = "b"
    /\ out.req.fileContent = "c2"
    /\ out = errorHandler(out.req, 404, "File not found")
    /\ files = <<[oid |-> 1, id |-> "a", fileName |-> "n", fileContent |-> "c1"]>>

====
